---- MODULE Spec2Model ----
(***************************************************************************)
(* Model of src/main.py: the Flask attendance application (absensi         *)
(* pegawai).  One browser session talks to the application; the remote     *)
(* store (Supabase) holds the read-only users table and the two tables     *)
(* the application writes, jadwal_danton and absensi.  Every route         *)
(* handler is one action; each remote call a handler makes may fail.       *)
(***************************************************************************)
EXTENDS Integers, Sequences, FiniteSets, TLC

(***************************************************************************)
(* Values                                                                  *)
(***************************************************************************)
\* Python's None: a missing form field, a NULL column, dict.get of a missing key.
NONE == "<null>"
\* A key that is not in the Flask session dictionary.
ABSENT == "<absent>"

\* Python truthiness of the strings the handlers test with "if not x".
Falsy(v) == v \in {NONE, ""}

(***************************************************************************)
(* Bounds of the model                                                     *)
(***************************************************************************)
\* half days that pass after the first request
MaxTicks == 1
\* rows ever inserted into jadwal_danton (the store numbers them 1, 2, ...)
MaxJadwalId == 2
\* rows the absensi table may hold
MaxAbsensi == 2
\* remote calls of one request that may fail: the first MaxFaultCall of them
MaxFaultCall == 3

\* timedelta(hours=24), the retention window of the purge
RetentionHours == 24

(***************************************************************************)
(* The users table.  The application only reads it.                        *)
(***************************************************************************)
Users ==
  << [id |-> "u1", username |-> "admin", password |-> "pw1", role |-> "admin",
      unit_id |-> NONE, id_pegawai |-> NONE],
     [id |-> "u2", username |-> "budi", password |-> "pw2", role |-> "pegawai",
      unit_id |-> "A", id_pegawai |-> "p2"],
     [id |-> "u3", username |-> "citra", password |-> "pw3", role |-> "pegawai",
      unit_id |-> "A", id_pegawai |-> NONE],
     [id |-> "u4", username |-> "dewi", password |-> "pw4", role |-> "pegawai",
      unit_id |-> "B", id_pegawai |-> "p4"] >>

UserIds == {Users[i].id : i \in 1..Len(Users)}

NoUser == [id |-> NONE, username |-> NONE, password |-> NONE, role |-> NONE,
           unit_id |-> NONE, id_pegawai |-> NONE]

NoJadwal == [id |-> 0, danton_id |-> NONE, unit_id |-> NONE, tanggal |-> 0 - 1]

(***************************************************************************)
(* Inputs of the requests                                                  *)
(***************************************************************************)
\* (username, password) pairs of the login form: the users of this browser
\* (u4 never uses it), a wrong password and an unknown username
Credentials ==
  {<<"admin", "pw1">>, <<"budi", "pw2">>, <<"citra", "pw3">>,
   <<"budi", "salah">>, <<"tamu", "pw1">>}

\* danton_id of the schedule form: a user id, an employee id, or any other text
DantonInputs == {"u1", "u2", "p2", "None"}
\* The schedule forms: (danton_id, unit_id, tanggal).  tanggal is a day number:
\* day d is the date whose midnight is 24 * d hours on the clock.  The clock
\* starts on day 1, so the forms are: every danton_id for today in unit B, u2
\* for today in unit A as well, and one entry for yesterday.
JadwalForms ==
  (DantonInputs \X {"B"} \X {1}) \cup {<<"u2", "A", 1>>, <<"u2", "B", 0>>}
\* the schedule forms of the runs that exercise the attendance routes
JadwalFormsAbsen == {<<"u2", "B", 1>>}

\* status_<id> of the attendance form: missing, empty, or a status
StatusInputs == {NONE, "", "hadir"}
\* The attendance forms.  Each carries a status for the admin u1, who is on no
\* roster, and for u4, who is on the roster of unit B, not A; the status of u2
\* is empty or given, the status of u3 is missing or given.
AbsenForms ==
  {f \in [UserIds -> StatusInputs] :
     /\ f["u1"] = "hadir" /\ f["u4"] = "hadir"
     /\ f["u2"] # NONE /\ f["u3"] # ""}
\* tanggal of the attendance form
AbsenDates == {0}

Methods == {"GET", "POST"}

\* Which remote call of the request fails (by position), and how: the client
\* raises ("exc") or answers without a payload ("nodata").  A failed call
\* leaves the store as it was.
NoFault == [at |-> {}, kind |-> "exc"]
Faults ==
  {NoFault} \cup
  {[at |-> {k}, kind |-> kind] : k \in 1..MaxFaultCall, kind \in {"exc", "nodata"}}
\* The faults of a handler whose calls all go through safe_execute, which
\* answers (False, message) to both kinds.
CallFaults == {flt \in Faults : flt.kind = "exc"}

VARIABLES
  session,        \* the Flask session of the browser
  jadwal_danton,  \* table jadwal_danton, in the order the store returns it
  absensi,        \* table absensi
  nextJadwalId,   \* the id the store gives the next jadwal_danton row
  now,            \* datetime.now(), in hours
  resp            \* the response to the last request

vars == <<session, jadwal_danton, absensi, nextJadwalId, now, resp>>

SessionKeys == {"user_id", "id", "username", "role", "unit_id", "id_pegawai",
                "is_danton_today", "danton_unit_id"}

EmptySession == [k \in SessionKeys |-> ABSENT]

\* session.get(k)
SessionGet(s, k) == IF s[k] = ABSENT THEN NONE ELSE s[k]

\* datetime.now().strftime("%Y-%m-%d"), as a day number
Today(t) == t \div 24

\* a response: what is sent back, and how many remote calls the handler made
Response(body, calls) == [body |-> body, calls |-> calls]

(***************************************************************************)
(* safe_execute and the store's filters                                    *)
(***************************************************************************)
\* the k-th remote call of the request fails
Fails(flt, k) == k \in flt.at

\* safe_execute: ok is False when the call raised or returned no payload
SafeOk(flt, k) == ~Fails(flt, k)

\* .eq(column, value): the client writes the value into the query string, so
\* None is sent as the text None; a NULL column equals nothing.
EqParam(v) == IF v = NONE THEN "None" ELSE v
EqMatch(col, v) == col # NONE /\ col = EqParam(v)

(***************************************************************************)
(* login: POST /                                                           *)
(***************************************************************************)
\* Variant of UserRows that leaves out .eq("password", password).
UserRowsByName(username, password) ==
  SelectSeq(Users, LAMBDA u : EqMatch(u.username, username))

\* supabase.table("users").select("*").eq("username", ..).eq("password", ..)
UserRows(username, password) ==
  SelectSeq(Users, LAMBDA u : EqMatch(u.username, username)
                              /\ EqMatch(u.password, password))

\* user = res.data[0] if ok and res.data else None
LoginUser(username, password, flt) ==
  LET rows == UserRows(username, password)
  IN  IF SafeOk(flt, 1) /\ rows # <<>> THEN rows[1] ELSE NoUser

\* supabase.table("jadwal_danton").select("*").eq("tanggal", today).eq("danton_id", ..)
JadwalRows(jd, today, did) ==
  SelectSeq(jd, LAMBDA j : j.tanggal = today /\ EqMatch(j.danton_id, did))

\* The two queries and the choice of jadwal: scheme 1 by users.id, scheme 2 by
\* users.id_pegawai.  Both queries are always made.
ResolveDanton(user, today, jd, flt) ==
  LET res1 == JadwalRows(jd, today, user.id)
      res2 == JadwalRows(jd, today, user.id_pegawai)
  IN  IF SafeOk(flt, 2) /\ res1 # <<>> THEN res1[1]
      ELSE IF SafeOk(flt, 3) /\ res2 # <<>> THEN res2[1]
      ELSE NoJadwal

\* the session fields login writes for the user it found
LoginIdentity(s, user) ==
  [s EXCEPT !.user_id = user.id, !.id = user.id, !.username = user.username,
            !.role = user.role, !.unit_id = user.unit_id,
            !.id_pegawai = user.id_pegawai]

\* if jadwal: session["is_danton_today"] = True; session["danton_unit_id"] = ..
LoginDanton(s, jadwal) ==
  IF jadwal # NoJadwal
  THEN [s EXCEPT !.is_danton_today = "True", !.danton_unit_id = jadwal.unit_id]
  ELSE s

\* Variant of LoginTarget that looks at the role before the schedule entry.
LoginTargetByRole(user, jadwal) ==
  IF user.role = "admin" THEN "redirect:/dashboard_admin"
  ELSE IF jadwal # NoJadwal THEN "redirect:/dashboard_danton"
  ELSE "redirect:/dashboard_pegawai"

\* the redirect that ends a successful login
LoginTarget(user, jadwal) ==
  IF jadwal # NoJadwal THEN "redirect:/dashboard_danton"
  ELSE IF user.role = "admin" THEN "redirect:/dashboard_admin"
  ELSE "redirect:/dashboard_pegawai"

LoginGet ==
  /\ resp' = Response("page:login.html", 0)
  /\ UNCHANGED <<session, jadwal_danton, absensi, nextJadwalId, now>>

LoginPost(username, password, flt) ==
  LET user   == LoginUser(username, password, flt)
      jadwal == ResolveDanton(user, Today(now), jadwal_danton, flt)
  IN  /\ IF user = NoUser
         THEN /\ session' = session
              /\ resp' = Response("redirect:/", 1)
         ELSE /\ session' = LoginDanton(LoginIdentity(session, user), jadwal)
              /\ resp' = Response(LoginTarget(user, jadwal), 3)
      /\ UNCHANGED <<jadwal_danton, absensi, nextJadwalId, now>>

(***************************************************************************)
(* The dashboards and logout                                               *)
(***************************************************************************)
\* Variant of RoleIsNot that only tests 'role' not in session.
RoleIsNotInSession(s, role) == s.role = ABSENT

\* 'role' not in session or session['role'] != role
RoleIsNot(s, role) == s.role = ABSENT \/ s.role # role

\* require_login()
RequireLogin(s) == SessionGet(s, "user_id") # NONE

\* not require_login() or session.get("role") != role
Unauthorized(s, role) == ~RequireLogin(s) \/ SessionGet(s, "role") # role

\* session.get("is_danton_today")
IsDantonToday(s) == ~Falsy(SessionGet(s, "is_danton_today"))

DashboardAdmin ==
  /\ resp' = IF RoleIsNot(session, "admin")
             THEN Response("redirect:/", 0)
             ELSE Response("page:dashboard_admin.html", 0)
  /\ UNCHANGED <<session, jadwal_danton, absensi, nextJadwalId, now>>

DashboardDanton ==
  /\ resp' = IF ~IsDantonToday(session)
             THEN Response("redirect:/", 0)
             ELSE Response("page:dashboard_danton.html", 0)
  /\ UNCHANGED <<session, jadwal_danton, absensi, nextJadwalId, now>>

DashboardPegawai ==
  /\ resp' = IF RoleIsNot(session, "pegawai") \/ IsDantonToday(session)
             THEN Response("redirect:/", 0)
             ELSE Response("page:dashboard_pegawai.html", 0)
  /\ UNCHANGED <<session, jadwal_danton, absensi, nextJadwalId, now>>

\* session.clear()
Logout ==
  /\ session' = EmptySession
  /\ resp' = Response("redirect:/", 0)
  /\ UNCHANGED <<jadwal_danton, absensi, nextJadwalId, now>>

(***************************************************************************)
(* absen_danton: GET/POST /absen-danton                                    *)
(***************************************************************************)
\* supabase.table("users").select("*").eq("role", "pegawai").eq("unit_id", unit_id)
Roster(unit_id) ==
  SelectSeq(Users, LAMBDA u : EqMatch(u.role, "pegawai")
                              /\ EqMatch(u.unit_id, unit_id))

\* the row one iteration of the loop inserts
AbsensiRow(p, s, status, tanggal, unit_id) ==
  [pegawai_id |-> p.id, danton_id |-> SessionGet(s, "id"), tanggal |-> tanggal,
   status |-> status, unit_id |-> unit_id]

\* Variant of SkipStatus that tests "if status is None".
SkipMissing(status) == status = NONE

\* if not status: continue
SkipStatus(status) == Falsy(status)

\* The loop "for p in pegawai" from employee i on; call is the position of the
\* next remote call, acc the rows inserted so far.  The insert is not wrapped:
\* when the client raises, the exception ends the loop and the request.
RECURSIVE AbsenLoop(_, _, _, _, _, _, _, _)
AbsenLoop(pegawai, i, call, s, form, tanggal, flt, acc) ==
  IF i > Len(pegawai)
  THEN [rows |-> acc, raised |-> FALSE, calls |-> call - 1]
  ELSE LET p      == pegawai[i]
           status == form[p.id]
       IN  IF SkipStatus(status)
           THEN AbsenLoop(pegawai, i + 1, call, s, form, tanggal, flt, acc)
           ELSE IF Fails(flt, call)
           THEN IF flt.kind = "exc"
                THEN [rows |-> acc, raised |-> TRUE, calls |-> call]
                ELSE AbsenLoop(pegawai, i + 1, call + 1, s, form, tanggal, flt, acc)
           ELSE AbsenLoop(pegawai, i + 1, call + 1, s, form, tanggal, flt,
                          Append(acc, AbsensiRow(p, s, status, tanggal,
                                                 SessionGet(s, "unit_id"))))

\* the guard of the route: only "if not unit_id"
AbsenDenied(s) == Falsy(SessionGet(s, "unit_id"))

AbsenDanton(method, form, tanggal, flt) ==
  LET unit_id == SessionGet(session, "unit_id")
      pegawai == Roster(unit_id)
      loop    == AbsenLoop(pegawai, 1, 2, session, form, tanggal, flt, <<>>)
  IN  /\ IF AbsenDenied(session)
         THEN /\ resp' = Response("redirect:/login", 0)
              /\ absensi' = absensi
         ELSE IF Fails(flt, 1) /\ flt.kind = "exc"
         THEN \* the select is not wrapped either
              /\ resp' = Response("500", 1)
              /\ absensi' = absensi
         ELSE IF method = "GET"
         THEN /\ resp' = Response("page:absen_danton.html", 1)
              /\ absensi' = absensi
         ELSE IF Fails(flt, 1)
         THEN \* .data is None: "for p in pegawai" raises TypeError
              /\ resp' = Response("500", 1)
              /\ absensi' = absensi
         ELSE /\ Len(absensi) + Len(loop.rows) <= MaxAbsensi
              /\ absensi' = absensi \o loop.rows
              /\ resp' = IF loop.raised
                         THEN Response("500", loop.calls)
                         ELSE Response("redirect:/dashboard_danton", loop.calls)
      /\ UNCHANGED <<session, jadwal_danton, nextJadwalId, now>>

(***************************************************************************)
(* kelola_jadwal: GET/POST /kelola_jadwal                                  *)
(***************************************************************************)
\* Variant of Expired with >= for >.
ExpiredInclusive(t, tanggal) == t - 24 * tanggal >= RetentionHours

\* now - datetime.strptime(j["tanggal"], "%Y-%m-%d") > timedelta(hours=24)
Expired(t, tanggal) == t - 24 * tanggal > RetentionHours

\* supabase.table("jadwal_danton").delete().eq("id", id)
DeleteJadwal(jd, id) == SelectSeq(jd, LAMBDA j : j.id # id)

\* The loop "for j in res_old.data" from row i on; each delete goes through
\* safe_execute, so a failed delete leaves the row and the loop goes on.
RECURSIVE PurgeLoop(_, _, _, _, _, _)
PurgeLoop(old, i, call, t, flt, jd) ==
  IF i > Len(old)
  THEN [jadwal |-> jd, calls |-> call - 1]
  ELSE IF Expired(t, old[i].tanggal)
  THEN PurgeLoop(old, i + 1, call + 1, t, flt,
                 IF SafeOk(flt, call) THEN DeleteJadwal(jd, old[i].id) ELSE jd)
  ELSE PurgeLoop(old, i + 1, call, t, flt, jd)

\* the purge at the start of every visit: nothing is deleted when the first
\* select failed
Purge(jd, t, flt) ==
  IF SafeOk(flt, 1) THEN PurgeLoop(jd, 1, 2, t, flt, jd)
  ELSE [jadwal |-> jd, calls |-> 1]

KelolaJadwal(method, danton_id, unit_id, tanggal, flt) ==
  IF RoleIsNot(session, "admin")
  THEN /\ resp' = Response("redirect:/", 0)
       /\ UNCHANGED <<session, jadwal_danton, absensi, nextJadwalId, now>>
  ELSE LET purged   == Purge(jadwal_danton, now, flt)
           call     == purged.calls + 1
           row      == [id |-> nextJadwalId, danton_id |-> danton_id,
                        unit_id |-> unit_id, tanggal |-> tanggal]
           inserted == method = "POST" /\ SafeOk(flt, call)
           calls    == IF method = "POST" THEN call ELSE purged.calls
       IN  /\ inserted => nextJadwalId <= MaxJadwalId
           /\ jadwal_danton' = IF inserted THEN Append(purged.jadwal, row)
                               ELSE purged.jadwal
           /\ nextJadwalId' = IF inserted THEN nextJadwalId + 1 ELSE nextJadwalId
           \* the three selects of the page go through safe_execute
           /\ resp' = Response("page:kelola_jadwal.html", calls + 3)
           /\ UNCHANGED <<session, absensi, now>>

(***************************************************************************)
(* The reports                                                             *)
(***************************************************************************)
\* "x.execute().data or []" of a call that is not wrapped: the rows, or none
\* when the answer has no payload
DataOrEmpty(rows, flt, k) == IF Fails(flt, k) THEN <<>> ELSE rows

\* a call that is not wrapped raises
Raises(flt, k) == Fails(flt, k) /\ flt.kind = "exc"

RekapAbsensiAll(flt) ==
  /\ resp' = IF Unauthorized(session, "admin")
             THEN Response("403:Unauthorized", 0)
             ELSE IF Raises(flt, 1) THEN Response("500", 1)
             ELSE IF Raises(flt, 2) THEN Response("500", 2)
             ELSE Response("page:rekap_absensi_pegawai.html", 2)
  /\ UNCHANGED <<session, jadwal_danton, absensi, nextJadwalId, now>>

RekapSaya(flt) ==
  /\ resp' = IF Unauthorized(session, "pegawai")
             THEN Response("403:Unauthorized", 0)
             ELSE IF Raises(flt, 1) THEN Response("500", 1)
             ELSE IF Raises(flt, 2) THEN Response("500", 2)
             ELSE Response("page:rekap_pegawai.html", 2)
  /\ UNCHANGED <<session, jadwal_danton, absensi, nextJadwalId, now>>

ExportExcel(flt) ==
  /\ resp' = IF Unauthorized(session, "admin")
             THEN Response("403:Unauthorized", 0)
             ELSE IF Raises(flt, 1) THEN Response("500", 1)
             ELSE IF DataOrEmpty(absensi, flt, 1) = <<>>
             THEN Response("200:Tidak ada data absensi", 1)
             \* get_users_by_ids goes through safe_execute
             ELSE Response("file:rekap_absensi.xlsx", 2)
  /\ UNCHANGED <<session, jadwal_danton, absensi, nextJadwalId, now>>

(***************************************************************************)
(* Time, and the specification                                             *)
(***************************************************************************)
\* time passes between requests, half a day at a time
Tick ==
  /\ now + 12 <= 24 + 12 * MaxTicks
  /\ now' = now + 12
  /\ UNCHANGED <<session, jadwal_danton, absensi, nextJadwalId, resp>>

Init ==
  /\ session = EmptySession
  /\ jadwal_danton = <<>>
  /\ absensi = <<>>
  /\ nextJadwalId = 1
  /\ now = 24
  /\ resp = Response("page:login.html", 0)

\* the requests that leave the attendance table alone
NextJadwal ==
  \/ LoginGet
  \/ \E c \in Credentials, flt \in CallFaults : LoginPost(c[1], c[2], flt)
  \/ DashboardAdmin
  \/ DashboardDanton
  \/ DashboardPegawai
  \/ \E flt \in CallFaults : KelolaJadwal("GET", NONE, NONE, 0, flt)
  \/ \E f \in JadwalForms, flt \in CallFaults :
       KelolaJadwal("POST", f[1], f[2], f[3], flt)
  \/ Logout
  \/ Tick

\* every request
Next ==
  \/ LoginGet
  \/ \E c \in Credentials, flt \in CallFaults : LoginPost(c[1], c[2], flt)
  \/ DashboardAdmin
  \/ DashboardDanton
  \/ DashboardPegawai
  \/ \E flt \in Faults : AbsenDanton("GET", [u \in UserIds |-> NONE], 0, flt)
  \/ \E f \in AbsenForms, t \in AbsenDates, flt \in Faults :
       AbsenDanton("POST", f, t, flt)
  \/ \E flt \in CallFaults : KelolaJadwal("GET", NONE, NONE, 0, flt)
  \/ \E f \in JadwalFormsAbsen, flt \in CallFaults :
       KelolaJadwal("POST", f[1], f[2], f[3], flt)
  \/ \E flt \in Faults : RekapAbsensiAll(flt)
  \/ \E flt \in Faults : RekapSaya(flt)
  \/ \E flt \in Faults : ExportExcel(flt)
  \/ Logout
  \/ Tick

\* every route, with the schedule form narrowed
Spec == Init /\ [][Next]_vars

\* the login, schedule and dashboard routes, with every schedule form
SpecJadwal == Init /\ [][NextJadwal]_vars

(***************************************************************************)
(* Properties                                                              *)
(***************************************************************************)
\* the rows of a table, as a set
Range(seq) == {seq[k] : k \in 1..Len(seq)}

UserSet == Range(Users)

\* what only an admin may be sent, and what only a pegawai may be sent
AdminBodies ==
  {"page:dashboard_admin.html", "page:kelola_jadwal.html",
   "page:rekap_absensi_pegawai.html", "file:rekap_absensi.xlsx",
   "200:Tidak ada data absensi"}
PegawaiBodies == {"page:rekap_pegawai.html"}
Denials == {"redirect:/", "403:Unauthorized"}

\* a request to a route that asks for the admin role, and one to the route that
\* asks for the pegawai role
AdminRouteStep ==
  \/ DashboardAdmin
  \/ \E flt \in CallFaults : KelolaJadwal("GET", NONE, NONE, 0, flt)
  \/ \E f \in JadwalFormsAbsen, flt \in CallFaults :
       KelolaJadwal("POST", f[1], f[2], f[3], flt)
  \/ \E flt \in Faults : RekapAbsensiAll(flt)
  \/ \E flt \in Faults : ExportExcel(flt)
PegawaiRouteStep == \E flt \in Faults : RekapSaya(flt)

\* C1: a role-gated route sends its protected data only to a session whose role
\* is the one the route asks for; the schedule table is written (purge, insert)
\* only for an admin session; and a request to a gated route from a session of
\* another role or from no session at all is denied (redirect to login or 403)
\* without a single call to the store and without a change to any table.
C1_RoleGate ==
  [][ /\ resp'.body \in AdminBodies => session.role = "admin"
      /\ resp'.body \in PegawaiBodies => session.role = "pegawai"
      /\ jadwal_danton' # jadwal_danton => session.role = "admin"
      /\ (session.role # "admin" /\ AdminRouteStep)
           => /\ resp'.body \in Denials
              /\ resp'.calls = 0
              /\ UNCHANGED <<session, jadwal_danton, absensi, nextJadwalId>>
      /\ (session.role # "pegawai" /\ PegawaiRouteStep)
           => /\ resp'.body \in Denials
              /\ resp'.calls = 0
              /\ UNCHANGED <<session, jadwal_danton, absensi, nextJadwalId>>
    ]_vars

\* C1 witness: a gated route has answered 403 to a browser with no session
C1_Witness == session = EmptySession /\ resp.body = "403:Unauthorized"

\* what a login POST answers: a redirect, after the lookup alone (1 call) or
\* after the lookup and the two schedule queries (3 calls)
LoginAnswer ==
  /\ resp'.body \in {"redirect:/", "redirect:/dashboard_danton",
                     "redirect:/dashboard_admin", "redirect:/dashboard_pegawai"}
  /\ resp'.calls \in {1, 3}

\* the users whose username and password are exactly the submitted ones
Matching(username, password) ==
  {u \in UserSet : u.username = username /\ u.password = password}

\* C2: a login POST whose (username, password) matches exactly one user, and
\* whose lookup succeeds, leaves that user's id, role and unit_id in the session;
\* a login POST that matches no user, or whose lookup fails, writes no session
\* field, so an unauthenticated session stays unauthenticated.
C2_Login ==
  [][ LoginAnswer => \A c \in Credentials, flt \in CallFaults :
        LoginPost(c[1], c[2], flt) =>
          LET m == Matching(c[1], c[2])
          IN  /\ (Cardinality(m) = 1 /\ ~Fails(flt, 1)) =>
                   \A u \in m : /\ session'.user_id = u.id
                                /\ session'.role = u.role
                                /\ session'.unit_id = u.unit_id
              /\ (m = {} \/ Fails(flt, 1)) =>
                   /\ session' = session
                   /\ session.user_id = ABSENT => session'.user_id = ABSENT
    ]_vars

\* C2 witness: a pegawai has logged in and the session holds the identity
C2_Witness ==
  /\ session.user_id = "u3" /\ session.role = "pegawai" /\ session.unit_id = "A"
  /\ resp.body = "redirect:/dashboard_pegawai"

\* the resolution as the claim states it: scheme 1 first; scheme 2 only for a
\* user with a linked employee id
ClaimedResolve(u, today, jd) ==
  LET s1 == SelectSeq(jd, LAMBDA j : j.tanggal = today /\ j.danton_id = u.id)
      s2 == SelectSeq(jd, LAMBDA j : j.tanggal = today
                                     /\ j.danton_id = u.id_pegawai)
  IN  IF s1 # <<>> THEN s1[1]
      ELSE IF u.id_pegawai # NONE /\ s2 # <<>> THEN s2[1]
      ELSE NoJadwal

\* C3: at a login without remote failure the resolution returns the first entry
\* of today with danton_id = u.id; otherwise, only for a user with a linked
\* employee id, the first entry of today with danton_id = u.id_pegawai;
\* otherwise none.
C3_Resolution ==
  [][ LoginAnswer => \A c \in Credentials :
        (LoginPost(c[1], c[2], NoFault) /\ LoginUser(c[1], c[2], NoFault) # NoUser)
          => LET u == LoginUser(c[1], c[2], NoFault)
             IN  ResolveDanton(u, Today(now), jadwal_danton, NoFault)
                   = ClaimedResolve(u, Today(now), jadwal_danton)
    ]_vars

OnRoster(u, s) == u.role = "pegawai" /\ u.unit_id = SessionGet(s, "unit_id")

\* the rows a request has appended to the attendance table
NewRows == SubSeq(absensi', Len(absensi) + 1, Len(absensi'))

\* what an attendance POST without remote failure answers
AbsenPostAnswer == resp'.body \in {"redirect:/login", "redirect:/dashboard_danton"}

\* C5: an attendance POST without remote failure appends exactly one record for
\* each roster employee whose submitted status is non-empty and none for anyone
\* else; each record carries the employee's id, the session user's id as
\* recorder, the submitted date, the submitted status and the session's unit_id;
\* the records that were there stay as they were.
C5_Record ==
  [][ AbsenPostAnswer => \A f \in AbsenForms, t \in AbsenDates :
        AbsenDanton("POST", f, t, NoFault) =>
          /\ Len(absensi') >= Len(absensi)
          /\ SubSeq(absensi', 1, Len(absensi)) = absensi
          /\ \A u \in UserSet :
               Cardinality({k \in 1..Len(NewRows) : NewRows[k].pegawai_id = u.id})
                 = IF OnRoster(u, session) /\ f[u.id] \notin {NONE, ""}
                   THEN 1 ELSE 0
          /\ \A k \in 1..Len(NewRows) :
               /\ NewRows[k].danton_id = session.user_id
               /\ NewRows[k].tanggal = t
               /\ NewRows[k].status = f[NewRows[k].pegawai_id]
               /\ NewRows[k].unit_id = session.unit_id
    ]_vars

\* C5 witness: a POST has added one record to a table that held one, recorded
\* by another user
C5_Witness ==
  /\ resp = Response("redirect:/dashboard_danton", 2)
  /\ Len(absensi) = 2
  /\ absensi[2].danton_id = session.user_id
  /\ absensi[1].danton_id # session.user_id

\* C6: a /kelola_jadwal visit by an admin without remote failure deletes an
\* entry of date D if and only if now - D(00:00) > 24 hours: an entry aged 24
\* hours or less stays; the attendance table is not touched.
C6_Purge ==
  [][ resp'.body = "page:kelola_jadwal.html" =>
        \A m \in Methods, f \in JadwalForms \cup {<<NONE, NONE, 0>>} :
          KelolaJadwal(m, f[1], f[2], f[3], NoFault) =>
            /\ \A e \in Range(jadwal_danton) :
                 (e \notin Range(jadwal_danton')) <=> (now - 24 * e.tanggal > 24)
            /\ absensi' = absensi
    ]_vars

\* C6 witness: a visit has deleted yesterday's entry, 36 hours old, and kept
\* today's, 12 hours old
C6_Witness ==
  /\ resp.body = "page:kelola_jadwal.html"
  /\ nextJadwalId = 3
  /\ Len(jadwal_danton) = 1
  /\ now - 24 * jadwal_danton[1].tanggal = 12

\* C7: attendance records are inserted only for a session whose user was
\* resolved as today's squad leader (is_danton_today set).
C7_OnlyDanton ==
  [][ absensi' # absensi => session.is_danton_today = "True" ]_vars

\* C8: no handler ends in an unhandled exception when a remote call fails.
C8_NoException == resp.body # "500"

\* the position, among the remote calls of an attendance POST, of the insert for
\* the i-th roster employee: the select is call 1, and every employee with a
\* non-empty status before it takes one call
InsertCall(roster, f, i) ==
  1 + Cardinality({j \in 1..i : f[roster[j].id] \notin {NONE, ""}})

\* C9: in an attendance POST every roster employee's insert is independent: the
\* employees who have a record afterwards are those with a non-empty status
\* whose own insert did not fail.
C9_Independent ==
  [][ \A f \in AbsenForms, t \in AbsenDates, flt \in Faults :
        (/\ AbsenDanton("POST", f, t, flt)
         /\ ~AbsenDenied(session)
         /\ ~Fails(flt, 1)) =>
          LET roster == Roster(SessionGet(session, "unit_id"))
          IN  {NewRows[k].pegawai_id : k \in 1..Len(NewRows)}
                = {roster[i].id : i \in
                     {i \in 1..Len(roster) :
                        /\ f[roster[i].id] \notin {NONE, ""}
                        /\ ~Fails(flt, InsertCall(roster, f, i))}}
    ]_vars

\* C10: whenever is_danton_today is set, the user of the session was resolved as
\* today's squad leader at that user's latest successful login, and
\* danton_unit_id is the unit of the entry found then.  As a step property: a
\* successful login leaves the flag set only if it resolved an entry, with that
\* entry's unit; any other step leaves the flag set only if it was set before,
\* for the same user and unit.
C10_FlagIsCurrent ==
  [][ session'.is_danton_today = "True" =>
        /\ \A c \in Credentials, flt \in CallFaults :
             (LoginPost(c[1], c[2], flt) /\ LoginUser(c[1], c[2], flt) # NoUser) =>
               LET j == ResolveDanton(LoginUser(c[1], c[2], flt), Today(now),
                                      jadwal_danton, flt)
               IN  j # NoJadwal /\ session'.danton_unit_id = j.unit_id
        /\ (~ \E c \in Credentials, flt \in CallFaults :
                LoginPost(c[1], c[2], flt) /\ LoginUser(c[1], c[2], flt) # NoUser) =>
             /\ session.is_danton_today = "True"
             /\ session'.user_id = session.user_id
             /\ session'.danton_unit_id = session.danton_unit_id
    ]_vars

====
